---------------------------- MODULE Spec2Model ----------------------------
(***************************************************************************)
(* A model of zipper: the block-oriented binary delta codec.               *)
(*   zipper.py   generate_patch, _build_lookup, rle_encode, rle_decode,    *)
(*               _ask_patch_size                                           *)
(*   encoder.py  encode_to_bin (the CRC-32 trailer)                        *)
(*   builder.py  decode_bin, apply_patch, main (the CRC-32 comparison)     *)
(*                                                                         *)
(* Byte strings are sequences of numbers in 0..255.  Python indexes from 0 *)
(* and TLA+ from 1: the operators below take the source's 0-based indexes  *)
(* and do the shift in At and Slice only.                                  *)
(***************************************************************************)
EXTENDS Integers, Sequences, FiniteSets, TLC

VARIABLES
    pc,          \* the position of the program
    status,      \* "running", "ok", or the error that ended the run
    patch_size,  \* B: the block size
    file1,       \* generate_patch's file1: the target T
    file2,       \* generate_patch's file2, apply_patch's reference: R
    lookup,      \* _build_lookup's dict: window -> offset
    records,     \* generate_patch's list of (record_type, data)
    i,           \* generate_patch's index into records
    out,         \* generate_patch's output stream
    container,   \* the bytes of the .bin file
    patch_bin,   \* apply_patch's raw patch
    crc_stored,  \* decode_bin's second result
    ref,         \* apply_patch's zero-padded reference
    result,      \* apply_patch's output buffer (its local out)
    out_pos,     \* apply_patch's write cursor
    pos,         \* apply_patch's read cursor
    tampered,    \* whether a byte of the raw patch was changed in transit
    rle_input,   \* a byte string handed to rle_encode, or to rle_decode
    rle_encoded, \* what rle_encode returned for it
    rle_decoded  \* what rle_decode returned, [err, out]

vars == << pc, status, patch_size, file1, file2, lookup, records, i, out,
           container, patch_bin, crc_stored, ref, result, out_pos, pos,
           tampered, rle_input, rle_encoded, rle_decoded >>

-----------------------------------------------------------------------------
(* Python's sequence primitives *)

Min(a, b) == IF a <= b THEN a ELSE b

\* s[k] with a 0-based k
At(s, k) == s[k + 1]

\* s[a:b] for 0 <= a: the slice is cut at the end of s and is empty when a is
\* at or past it
Slice(s, a, b) == SubSeq(s, a + 1, Min(b, Len(s)))

\* bytes([v]) * n
Repeat(v, n) == [k \in 1..n |-> v]

\* a ^ b on naturals
RECURSIVE BitXor(_, _)
BitXor(a, b) ==
    IF a = 0 THEN b
    ELSE IF b = 0 THEN a
    ELSE (((a % 2) + (b % 2)) % 2) + 2 * BitXor(a \div 2, b \div 2)

\* bytes(a ^ b for a, b in zip(x, y)): zip stops at the shorter one
XorBytes(x, y) == [k \in 1..Min(Len(x), Len(y)) |-> BitXor(x[k], y[k])]

-----------------------------------------------------------------------------
(* rle_encode, zipper.py 72-104 *)

\* RunLen with the cap of the run one too high
RunLenCap130(data, k) ==
    LET n == Len(data)
        Continue(run_len) ==
            /\ k + run_len < n
            /\ At(data, k + run_len) = At(data, k)
            /\ run_len < 130
    IN  CHOOSE run_len \in 1..130 :
            ~Continue(run_len) /\ \A m \in 1..(run_len - 1) : Continue(m)

\* the inner while of line 82, entered with run_len = 1: run_len goes up by
\* one while the condition holds, so it ends at the first value where the
\* condition is false
RunLen(data, k) ==
    LET n == Len(data)
        Continue(run_len) ==
            /\ k + run_len < n
            /\ At(data, k + run_len) = At(data, k)
            /\ run_len < 129
    IN  CHOOSE run_len \in 1..129 :
            ~Continue(run_len) /\ \A m \in 1..(run_len - 1) : Continue(m)

\* the inner while of lines 95-100, entered with lit_len = 1 and i = k + 1;
\* lit_len and i go up together, so i = k + lit_len
LitLen(data, k) ==
    LET n == Len(data)
        Continue(lit_len) ==
            /\ lit_len < 128
            /\ k + lit_len < n
            /\ ~(k + lit_len + 1 < n
                 /\ At(data, k + lit_len) = At(data, k + lit_len + 1))
    IN  CHOOSE lit_len \in 1..128 :
            ~Continue(lit_len) /\ \A m \in 1..(lit_len - 1) : Continue(m)

\* one pass of the outer while at i = k, then the rest
RECURSIVE rle_encode_from(_, _, _)
rle_encode_from(data, k, acc) ==
    IF ~(k < Len(data)) THEN acc
    ELSE LET run_len == RunLen(data, k)
         IN  IF run_len >= 2
             THEN rle_encode_from(data, k + run_len,
                      acc \o << 128 + (run_len - 2), At(data, k) >>)
             ELSE LET lit_len == LitLen(data, k)
                  IN  rle_encode_from(data, k + lit_len,
                          (acc \o << lit_len - 1 >>)
                              \o Slice(data, k, k + lit_len))

rle_encode(data) == rle_encode_from(data, 0, << >>)

-----------------------------------------------------------------------------
(* rle_decode, zipper.py 107-127.  The result is [err, out]: err is          *)
(* "IndexError" when data[i] of line 119 is read past the end, else "".      *)

\* line 124: out += data[i : i + count]
LiteralBytes(data, k, count) == Slice(data, k, k + count)

RECURSIVE rle_decode_from(_, _, _)
rle_decode_from(data, k, acc) ==
    IF ~(k < Len(data)) THEN [err |-> "", out |-> acc]
    ELSE LET ctrl == At(data, k)
         IN  IF ctrl >= 128
             THEN \* repeat run
                  LET count == (ctrl % 128) + 2
                  IN  IF k + 1 >= Len(data)
                      THEN [err |-> "IndexError", out |-> acc]
                      ELSE rle_decode_from(data, k + 2,
                               acc \o Repeat(At(data, k + 1), count))
             ELSE \* literal run
                  LET count == (ctrl % 128) + 1
                  IN  rle_decode_from(data, k + 1 + count,
                          acc \o LiteralBytes(data, k + 1, count))

rle_decode(data) == rle_decode_from(data, 0, << >>)

-----------------------------------------------------------------------------
(* zlib.crc32 and struct's ">I".  A 32-bit value is held as its two 16-bit   *)
(* halves [hi, lo], the model checker's integers being 32-bit signed; the    *)
(* arithmetic is that of the reflected CRC-32 (polynomial 0xEDB88320,        *)
(* initial value and final xor 0xFFFFFFFF).                                   *)

Word(hi, lo) == [hi |-> hi, lo |-> lo]

WordXor(a, b) == Word(BitXor(a.hi, b.hi), BitXor(a.lo, b.lo))

\* c >> 1 and c >> 8
WordShr1(c) == Word(c.hi \div 2, (c.lo \div 2) + (c.hi % 2) * 32768)
WordShr8(c) == Word(c.hi \div 256, (c.lo \div 256) + (c.hi % 256) * 256)

CrcPoly == Word(60856, 33568)     \* 0xEDB8 8320
CrcOnes == Word(65535, 65535)     \* 0xFFFF FFFF

RECURSIVE CrcBits(_, _)
CrcBits(c, n) ==
    IF n = 0 THEN c
    ELSE CrcBits(IF c.lo % 2 = 1 THEN WordXor(WordShr1(c), CrcPoly)
                                 ELSE WordShr1(c), n - 1)

CrcTable == [b \in 0..255 |-> CrcBits(Word(0, b), 8)]

\* one byte into the running value
CrcByte(c, b) == WordXor(CrcTable[BitXor(c.lo % 256, b)], WordShr8(c))

\* the running value after data[lo..hi] (1-based, inclusive), the bytes taken
\* in order.  The range is halved and the first half is evaluated before the
\* second is entered (the test on first does that), which keeps the
\* evaluation shallow for long data
RECURSIVE CrcRange(_, _, _, _)
CrcRange(c, data, lo, hi) ==
    IF lo > hi THEN c
    ELSE IF lo = hi THEN CrcByte(c, data[lo])
    ELSE LET mid == (lo + hi) \div 2
             first == CrcRange(c, data, lo, mid)
         IN  IF first.lo >= 0 THEN CrcRange(first, data, mid + 1, hi)
                              ELSE first

\* zlib.crc32(data) & 0xFFFF_FFFF
crc32(data) == WordXor(CrcRange(CrcOnes, data, 1, Len(data)), CrcOnes)

\* struct.pack(">I", crc) and struct.unpack(">I", b)[0]
PackBE32(c) == << c.hi \div 256, c.hi % 256, c.lo \div 256, c.lo % 256 >>
UnpackBE32(b) == Word(b[1] * 256 + b[2], b[3] * 256 + b[4])

\* n.to_bytes(3, "big") and int.from_bytes(b, "big") for three bytes
ToBytes3(n) == << n \div 65536, (n \div 256) % 256, n % 256 >>
FromBytes3(b) == b[1] * 65536 + b[2] * 256 + b[3]

-----------------------------------------------------------------------------
(* _build_lookup, zipper.py 47-69 *)

MAX_OFFSET == 16777215

cap == Min(Len(file2), MAX_OFFSET + 1)

\* LookupInsert without its test: a later position replaces an earlier one
LookupInsertAlways(lk, key, at) ==
    [w \in (DOMAIN lk) \cup {key} |-> IF w = key THEN at ELSE lk[w]]

\* lines 59-60 and 66-67: if key not in lookup: lookup[key] = at
LookupInsert(lk, key, at) ==
    IF key \in DOMAIN lk
    THEN lk
    ELSE [w \in (DOMAIN lk) \cup {key} |-> IF w = key THEN at ELSE lk[w]]

\* lines 57-60, the passes of the loop that take j = lo * patch_size, ...,
\* hi * patch_size in this order, from dictionary lk.  The range is halved and
\* the first half is evaluated before the second is entered (the test on
\* first does that), which keeps the evaluation shallow for a long file
RECURSIVE Pass1(_, _, _)
Pass1(lk, lo, hi) ==
    IF lo > hi THEN lk
    ELSE IF lo = hi
    THEN LookupInsert(lk, Slice(file2, lo * patch_size, (lo + 1) * patch_size),
                      lo * patch_size)
    ELSE LET mid == (lo + hi) \div 2
             first == Pass1(lk, lo, mid)
         IN  IF DOMAIN first = DOMAIN first THEN Pass1(first, mid + 1, hi)
                                            ELSE first

\* line 64: pass 2 offers only the unaligned positions
Pass2Offers(at) == at % patch_size # 0

\* lines 63-67, the passes of the loop that take j = lo, ..., hi in this order
RECURSIVE Pass2(_, _, _)
Pass2(lk, lo, hi) ==
    IF lo > hi THEN lk
    ELSE IF lo = hi
    THEN IF Pass2Offers(lo)
         THEN LookupInsert(lk, Slice(file2, lo, lo + patch_size), lo)
         ELSE lk
    ELSE LET mid == (lo + hi) \div 2
             first == Pass2(lk, lo, mid)
         IN  IF DOMAIN first = DOMAIN first THEN Pass2(first, mid + 1, hi)
                                            ELSE first

\* range(0, cap - patch_size + 1, patch_size) is j = k * patch_size for
\* k = 0 .. (cap - patch_size) \div patch_size, and empty when
\* cap < patch_size; range(0, cap - patch_size + 1) is 0 .. cap - patch_size
BuildLookupResult ==
    LET empty == [w \in {} |-> 0]
        aligned == IF cap - patch_size + 1 > 0
                   THEN Pass1(empty, 0, (cap - patch_size) \div patch_size)
                   ELSE empty
    IN  Pass2(aligned, 0, cap - patch_size)

-----------------------------------------------------------------------------
(* generate_patch, zipper.py 130-214 *)

\* line 141: lookup = _build_lookup(file2, patch_size)
BuildLookup ==
    /\ pc = "lookup"
    /\ lookup' = BuildLookupResult
    /\ pc' = "header"
    /\ UNCHANGED << status, patch_size, file1, file2, records, i, out,
                    container, patch_bin, crc_stored, ref, result, out_pos,
                    pos, tampered, rle_input, rle_encoded, rle_decoded >>

\* line 144: patch_size.to_bytes(1, "big") raises OverflowError for a value
\* that is negative or does not fit in one byte
WriteHeader ==
    /\ pc = "header"
    /\ IF patch_size >= 0 /\ patch_size <= 255
       THEN /\ out' = << patch_size >>
            /\ pc' = "classify"
            /\ status' = status
       ELSE /\ out' = out
            /\ pc' = "done"
            /\ status' = "OverflowError"
    /\ UNCHANGED << patch_size, file1, file2, lookup, records, i, container,
                    patch_bin, crc_stored, ref, result, out_pos, pos,
                    tampered, rle_input, rle_encoded, rle_decoded >>

num_full == Len(file1) \div patch_size
remainder == Len(file1) % patch_size

\* DeltaWins with the comparison of line 165 made non-strict
DeltaWinsOrTies(rle) == Len(rle) <= patch_size

\* line 165: the delta record is taken when its RLE form is shorter than a block
DeltaWins(rle) == Len(rle) < patch_size

\* lines 152-170: the record of full block number n, a pair (record_type, data)
ClassifyBlock(n) ==
    LET p == n * patch_size
        block == Slice(file1, p, p + patch_size)
    IN  IF p + patch_size <= Len(file2)
           /\ Slice(file2, p, p + patch_size) = block
        THEN << 67, << >> >>
        ELSE IF block \in DOMAIN lookup
        THEN << 82, ToBytes3(lookup[block]) >>
        ELSE IF p + patch_size <= Len(file2)
        THEN LET ref_block == Slice(file2, p, p + patch_size)
                 rle == rle_encode(XorBytes(block, ref_block))
             IN  IF DeltaWins(rle) THEN << 88, rle >> ELSE << 73, block >>
        ELSE << 73, block >>

\* lines 150-170: for idx in range(num_full), one record appended per block
Classify ==
    /\ pc = "classify"
    /\ records' = [k \in 1..num_full |-> ClassifyBlock(k - 1)]
    /\ i' = 0
    /\ pc' = "emit"
    /\ UNCHANGED << status, patch_size, file1, file2, lookup, out,
                    container, patch_bin, crc_stored, ref, result, out_pos,
                    pos, tampered, rle_input, rle_encoded, rle_decoded >>

\* RunOfMatches with the bound of its loop off by one: the last record of
\* the list is never counted into a run
RunOfMatchesShort ==
    LET Continue(run) ==
            /\ i + run + 1 < Len(records)
            /\ At(records, i + run)[1] = 67
    IN  CHOOSE run \in 1..Len(records) :
            ~Continue(run) /\ \A m \in 1..(run - 1) : Continue(m)

\* lines 179-181: the number of consecutive 0x43 records from records[i] on;
\* run goes up by one while the condition holds
RunOfMatches ==
    LET Continue(run) ==
            /\ i + run < Len(records)
            /\ At(records, i + run)[1] = 67
    IN  CHOOSE run \in 1..Len(records) :
            ~Continue(run) /\ \A m \in 1..(run - 1) : Continue(m)

\* ChunkOf with the count byte's largest value taken for the largest count
ChunkOf255(remaining) == Min(remaining, 255)

\* line 189: the number of blocks one 0x44 record takes
ChunkOf(remaining) == Min(remaining, 256)

\* lines 187-194: the chunks of a run of two or more
RECURSIVE EmitChunks(_)
EmitChunks(remaining) ==
    IF remaining > 1
    THEN LET n == ChunkOf(remaining)
         IN  << 68, n - 1 >> \o EmitChunks(remaining - n)
    ELSE IF remaining = 1 THEN << 67 >> ELSE << >>

\* lines 183-194
EmitRun(run) == IF run = 1 THEN << 67 >> ELSE EmitChunks(run)

\* one pass of the while of line 174
Emit ==
    /\ pc = "emit"
    /\ IF i < Len(records)
       THEN LET rec_type == At(records, i)[1]
                data == At(records, i)[2]
            IN  IF rec_type = 67
                THEN LET run == RunOfMatches
                     IN  /\ out' = out \o EmitRun(run)
                         /\ i' = i + run
                         /\ pc' = pc
                ELSE IF rec_type = 88
                THEN /\ out' = (out \o << 88, Len(data) >>) \o data
                     /\ i' = i + 1
                     /\ pc' = pc
                ELSE /\ out' = (out \o << rec_type >>) \o data
                     /\ i' = i + 1
                     /\ pc' = pc
       ELSE /\ out' = out
            /\ i' = i
            /\ pc' = "tail"
    /\ UNCHANGED << status, patch_size, file1, file2, lookup, records,
                    container, patch_bin, crc_stored, ref, result, out_pos,
                    pos, tampered, rle_input, rle_encoded, rle_decoded >>

\* lines 207-214: the trailing partial block, and the return
EmitTail ==
    /\ pc = "tail"
    /\ out' = IF remainder # 0
              THEN (out \o << 80, remainder >>)
                       \o Slice(file1, num_full * patch_size, Len(file1))
              ELSE out
    /\ pc' = "encoded"
    /\ UNCHANGED << status, patch_size, file1, file2, lookup, records,
                    i, container, patch_bin, crc_stored, ref, result, out_pos,
                    pos, tampered, rle_input, rle_encoded, rle_decoded >>

-----------------------------------------------------------------------------
(* encode_to_bin, encoder.py 13-18, called at zipper.py 265 with the patch   *)
(* and the target; decode_bin, builder.py 31-50                              *)

\* line 15: the trailer is the CRC-32 of the target file
Trailer == PackBE32(crc32(file1))

EncodeToBin ==
    /\ pc = "encoded"
    /\ container' = out \o Trailer
    /\ pc' = "written"
    /\ UNCHANGED << status, patch_size, file1, file2, lookup, records,
                    i, out, patch_bin, crc_stored, ref, result, out_pos, pos,
                    tampered, rle_input, rle_encoded, rle_decoded >>

DecodeBin ==
    /\ pc = "written"
    /\ IF Len(container) < 5
       THEN /\ status' = "InvalidHeader"
            /\ pc' = "done"
            /\ UNCHANGED << patch_bin, crc_stored >>
       ELSE /\ patch_bin' = SubSeq(container, 1, Len(container) - 4)
            /\ crc_stored' = UnpackBE32(SubSeq(container, Len(container) - 3,
                                               Len(container)))
            /\ pc' = "apply"
            /\ status' = status
    /\ UNCHANGED << patch_size, file1, file2, lookup, records, i, out,
                    container, ref, result, out_pos, pos, tampered, rle_input,
                    rle_encoded, rle_decoded >>

-----------------------------------------------------------------------------
(* apply_patch, builder.py 55-154 *)

\* lines 73-88: the header checks and the loop's initial state
ApplyPatchBegin ==
    /\ pc = "apply"
    /\ IF Len(patch_bin) < 1
       THEN /\ status' = "InvalidHeader"
            /\ pc' = "done"
            /\ UNCHANGED << patch_size, ref, result, out_pos, pos >>
       ELSE IF At(patch_bin, 0) = 0 \/ At(patch_bin, 0) % 8 # 0
       THEN /\ status' = "InvalidHeader"
            /\ pc' = "done"
            /\ patch_size' = At(patch_bin, 0)
            /\ UNCHANGED << ref, result, out_pos, pos >>
       ELSE /\ patch_size' = At(patch_bin, 0)
            /\ ref' = file2 \o Repeat(0, At(patch_bin, 0))
            /\ result' = << >>
            /\ out_pos' = 0
            /\ pos' = 1
            /\ pc' = "loop"
            /\ status' = status
    /\ UNCHANGED << file1, file2, lookup, records, i, out, container,
                    patch_bin, crc_stored, tampered, rle_input, rle_encoded, rle_decoded >>

\* what one record does: [err, out, out_pos, pos, brk]; err is "" or the
\* error raised, brk is the break of line 94
Step(err, o, w, r, brk) ==
    [err |-> err, out |-> o, out_pos |-> w, pos |-> r, brk |-> brk]

Raise(err) == Step(err, result, out_pos, pos, FALSE)

\* ref[at : at + patch_size]
RefBlock(at) == Slice(ref, at, at + patch_size)

\* lines 105-107: count times, out += ref[out_pos : out_pos + patch_size] and
\* out_pos += patch_size, from write cursor w on.  The appends are grouped in
\* halves, which keeps the evaluation shallow
RECURSIVE CopyRun(_, _)
CopyRun(w, count) ==
    IF count = 0 THEN << >>
    ELSE IF count = 1 THEN RefBlock(w)
    ELSE LET half == count \div 2
         IN  CopyRun(w, half) \o CopyRun(w + half * patch_size, count - half)

\* RunCount without the + 1 of the stored count
RunCountStored(n) == n

\* line 104
RunCount(n) == n + 1

\* lines 126-137: the 0x58 record
ApplyDelta ==
    IF pos + 2 > Len(patch_bin) THEN Raise("TruncatedRecord")
    ELSE LET rle_len == At(patch_bin, pos + 1)
             end == pos + 2 + rle_len
         IN  IF end > Len(patch_bin) THEN Raise("TruncatedRecord")
             ELSE LET decoded == rle_decode(Slice(patch_bin, pos + 2, end))
                  IN  IF decoded.err # "" THEN Raise(decoded.err)
                      ELSE Step("",
                                result \o XorBytes(decoded.out, RefBlock(out_pos)),
                                out_pos + patch_size, end, FALSE)

\* lines 91-152: the record at the read cursor
ApplyRecord ==
    LET rec == At(patch_bin, pos)
    IN  CASE rec = 0 -> Step("", result, out_pos, pos, TRUE)
          [] rec = 67 ->
                Step("", result \o RefBlock(out_pos), out_pos + patch_size,
                     pos + 1, FALSE)
          [] rec = 68 ->
                IF pos + 2 > Len(patch_bin) THEN Raise("TruncatedRecord")
                ELSE LET count == RunCount(At(patch_bin, pos + 1))
                     IN  Step("", result \o CopyRun(out_pos, count),
                              out_pos + count * patch_size, pos + 2, FALSE)
          [] rec = 82 ->
                IF pos + 4 > Len(patch_bin) THEN Raise("TruncatedRecord")
                ELSE LET offset == FromBytes3(Slice(patch_bin, pos + 1, pos + 4))
                     IN  Step("", result \o RefBlock(offset),
                              out_pos + patch_size, pos + 4, FALSE)
          [] rec = 73 ->
                LET end == pos + 1 + patch_size
                IN  IF end > Len(patch_bin) THEN Raise("TruncatedRecord")
                    ELSE Step("", result \o Slice(patch_bin, pos + 1, end),
                              out_pos + patch_size, end, FALSE)
          [] rec = 88 -> ApplyDelta
          [] rec = 80 ->
                IF pos + 2 > Len(patch_bin) THEN Raise("TruncatedRecord")
                ELSE LET length == At(patch_bin, pos + 1)
                         end == pos + 2 + length
                     IN  IF end > Len(patch_bin) THEN Raise("TruncatedRecord")
                         ELSE Step("", result \o Slice(patch_bin, pos + 2, end),
                                   out_pos, end, FALSE)
          [] OTHER -> Raise("UnknownTag")

\* one pass of the while of line 90, or its end and the return of line 154
ApplyPatchLoop ==
    /\ pc = "loop"
    /\ IF pos < Len(patch_bin)
       THEN LET s == ApplyRecord
            IN  /\ result' = s.out
                /\ out_pos' = s.out_pos
                /\ pos' = s.pos
                /\ status' = IF s.err # "" THEN s.err ELSE status
                /\ pc' = IF s.err # "" THEN "done"
                         ELSE IF s.brk THEN "applied" ELSE pc
       ELSE /\ pc' = "applied"
            /\ UNCHANGED << result, out_pos, pos, status >>
    /\ UNCHANGED << patch_size, file1, file2, lookup, records, i, out,
                    container, patch_bin, crc_stored, ref, tampered, rle_input,
                    rle_encoded, rle_decoded >>

\* builder.py 201-207: the comparison with the stored CRC-32
Accepts(crc_calc) == crc_stored = crc_calc

CheckCrc ==
    /\ pc = "applied"
    /\ status' = IF Accepts(crc32(result)) THEN "ok" ELSE "ChecksumMismatch"
    /\ pc' = "done"
    /\ UNCHANGED << patch_size, file1, file2, lookup, records, i, out,
                    container, patch_bin, crc_stored, ref, result, out_pos, pos,
                    tampered, rle_input, rle_encoded, rle_decoded >>

-----------------------------------------------------------------------------
(* The inputs of the runs *)

MaxRefBlocks == 2
MaxTgtBlocks == 2

Zeros(n) == Repeat(0, n)

\* 8-byte blocks: all zero, all one, a zero before seven ones (so that the
\* all-one window also lies at offset 1 of Mixed followed by Ones), and an
\* alternation (whose xor with a constant block does not compress)
ZeroBlock == Zeros(8)
OneBlock == Repeat(1, 8)
MixedBlock == << 0, 1, 1, 1, 1, 1, 1, 1 >>
AltBlock == << 0, 1, 0, 1, 0, 1, 0, 1 >>

Palette == { ZeroBlock, OneBlock, MixedBlock, AltBlock }

RECURSIVE BlockSeqs(_)
BlockSeqs(n) ==
    IF n = 0 THEN { << >> }
    ELSE BlockSeqs(n - 1) \cup { s \o b : s \in BlockSeqs(n - 1), b \in Palette }

Tails == { << >>, << 1, 0, 1 >> }

References == { s \o t : s \in BlockSeqs(MaxRefBlocks), t \in Tails }
Targets == { s \o t : s \in BlockSeqs(MaxTgtBlocks), t \in Tails }

\* long runs of same-offset matches: <<target, reference>>
LongPairs ==
    { << Zeros(257 * 8), Zeros(257 * 8) >>,
      << Zeros(300 * 8), Zeros(300 * 8) >>,
      << Zeros(258 * 8) \o << 1, 0, 1 >>, Zeros(259 * 8) >> }

\* a block whose xor with the zero block has an RLE form of exactly 8 bytes
\* (a literal run of 5, a repeat run of 3)
TieBlock == << 0, 1, 0, 1, 0, 1, 1, 1 >>

\* targets holding TieBlock over references that do not hold it as a window
TiePairs ==
    { << TieBlock, ZeroBlock >>,
      << ZeroBlock \o TieBlock, ZeroBlock \o OneBlock >>,
      << TieBlock \o MixedBlock, ZeroBlock \o ZeroBlock >> }

\* <<target, reference>> for a block size: with 16, whole numbers of 8-byte
\* blocks only
PairsAt(b) ==
    IF b = 8 THEN ((Targets \X References) \cup LongPairs) \cup TiePairs
    ELSE BlockSeqs(MaxTgtBlocks) \X BlockSeqs(MaxRefBlocks)

BlockSizes == { 8, 16 }

\* nothing has run yet
Fresh ==
    /\ status = "running"
    /\ lookup = [w \in {} |-> 0]
    /\ records = << >>
    /\ i = 0
    /\ out = << >>
    /\ container = << >>
    /\ patch_bin = << >>
    /\ crc_stored = Word(0, 0)
    /\ ref = << >>
    /\ result = << >>
    /\ out_pos = 0
    /\ pos = 0
    /\ tampered = FALSE
    /\ rle_encoded = << >>
    /\ rle_decoded = [err |-> "", out |-> << >>]

-----------------------------------------------------------------------------
(* Spec: zipper.py's generate_patch and encode_to_bin on a target and a      *)
(* reference, then builder.py's decode_bin, apply_patch and CRC check on the *)
(* file written and the same reference.                                      *)

Init ==
    /\ pc = "lookup"
    /\ patch_size \in BlockSizes
    /\ \E p \in PairsAt(patch_size) : file1 = p[1] /\ file2 = p[2]
    /\ rle_input = << >>
    /\ Fresh

Next ==
    \/ BuildLookup
    \/ WriteHeader
    \/ Classify
    \/ Emit
    \/ EmitTail
    \/ EncodeToBin
    \/ DecodeBin
    \/ ApplyPatchBegin
    \/ ApplyPatchLoop
    \/ CheckCrc

Spec == Init /\ [][Next]_vars

-----------------------------------------------------------------------------
(* The record layout of the stream, zipper.py 18-24: the records of a        *)
(* well-formed stream from the 0-based position at on, each [tag, n, at]     *)
(* with n its count or length byte (0 when it has none)                      *)

RECURSIVE RecordsFrom(_, _)
RecordsFrom(stream, at) ==
    IF at >= Len(stream) THEN << >>
    ELSE LET tag == At(stream, at)
             n == IF tag \in {68, 88, 80} THEN At(stream, at + 1) ELSE 0
             size == CASE tag = 67 -> 1
                       [] tag = 68 -> 2
                       [] tag = 82 -> 4
                       [] tag = 73 -> 1 + At(stream, 0)
                       [] OTHER -> 2 + n
         IN  << [tag |-> tag, n |-> n, at |-> at] >>
                 \o RecordsFrom(stream, at + size)

EmittedRecords == RecordsFrom(out, 1)

-----------------------------------------------------------------------------
(* Claims checked under Spec *)

\* C1 (round trip): the run raises no error, and when it ends the CRC check
\* has passed and apply_patch has returned exactly the target.
RoundTrip ==
    /\ status \in { "running", "ok" }
    /\ pc = "done" => (status = "ok" /\ result = file1)

\* a run that ended with a target longer than its non-empty reference, a
\* partial tail, and a run of same-offset matches collapsed into a 0x44 record
RoundTripWitness ==
    /\ pc = "done"
    /\ status = "ok"
    /\ result = file1
    /\ Len(file2) > 0
    /\ Len(file1) > Len(file2)
    /\ Len(file1) % patch_size # 0
    /\ \E k \in 1..Len(EmittedRecords) : EmittedRecords[k].tag = 68

\* the offsets below cap - patch_size + 1 at which window w lies in file2
Occurrences(w) ==
    { a \in 0..(cap - patch_size) : Slice(file2, a, a + patch_size) = w }

AlignedOccurrences(w) == { a \in Occurrences(w) : a % patch_size = 0 }

Lowest(S) == CHOOSE a \in S : \A b \in S : a <= b

PreferredOffset(w) ==
    IF AlignedOccurrences(w) # {} THEN Lowest(AlignedOccurrences(w))
    ELSE Lowest(Occurrences(w))

\* C6 (dictionary priority): when _build_lookup has returned, the dictionary
\* holds exactly the windows of the reference, each with its lowest aligned
\* offset if it has one and its lowest offset otherwise; and every 0x52
\* record carries that offset for its block.
DictionaryPriority ==
    /\ pc = "header" =>
          /\ DOMAIN lookup =
                 { Slice(file2, a, a + patch_size) : a \in 0..(cap - patch_size) }
          /\ \A w \in DOMAIN lookup : lookup[w] = PreferredOffset(w)
    /\ \A k \in 1..Len(records) :
          records[k][1] = 82 =>
              FromBytes3(records[k][2]) =
                  PreferredOffset(Slice(file1, (k - 1) * patch_size,
                                        k * patch_size))

\* a 0x52 record with an aligned offset for a block that also lies at a lower,
\* unaligned offset of the reference
DictionaryPriorityWitness ==
    \E k \in 1..Len(records) :
        /\ records[k][1] = 82
        /\ FromBytes3(records[k][2]) % patch_size = 0
        /\ \E u \in Occurrences(Slice(file1, (k - 1) * patch_size,
                                      k * patch_size)) :
              u % patch_size # 0 /\ u < FromBytes3(records[k][2])

\* C7 (run-collapse maximality): in the emitted stream no 0x43 follows a 0x43,
\* no 0x43 stands next to a 0x44 whose count is below 256, and no 0x44 has a
\* count below 2 (a count byte of 0).
RunCollapseMaximality ==
    LET recs == EmittedRecords
    IN  /\ \A k \in 1..(Len(recs) - 1) :
              /\ ~(recs[k].tag = 67 /\ recs[k + 1].tag = 67)
              /\ ~(recs[k].tag = 67 /\ recs[k + 1].tag = 68
                       /\ recs[k + 1].n < 255)
              /\ ~(recs[k].tag = 68 /\ recs[k].n < 255
                       /\ recs[k + 1].tag = 67)
        /\ \A k \in 1..Len(recs) : recs[k].tag = 68 => recs[k].n >= 1

\* the exception: a returned stream in which a 0x43 follows a 0x44 of 256
RunCollapseWitness ==
    /\ pc = "encoded"
    /\ \E k \in 1..(Len(EmittedRecords) - 1) :
          /\ EmittedRecords[k].tag = 68
          /\ EmittedRecords[k].n = 255
          /\ EmittedRecords[k + 1].tag = 67

\* scenario S6: 300 blocks of 8 zero bytes, the target equal to the reference
ScenarioS6 ==
    /\ patch_size = 8
    /\ file2 = Zeros(300 * 8)
    /\ file1 = file2

\* C8 as stated: the stream returned is D FF, D 2A, C.
RunChunkingAsStated ==
    (ScenarioS6 /\ pc = "encoded") => out = << 8, 68, 255, 68, 42, 67 >>

\* C8 as amended: the stream returned is D FF (256 blocks), D 2B (44 blocks).
RunChunking ==
    (ScenarioS6 /\ pc = "encoded") => out = << 8, 68, 255, 68, 43 >>

RunChunkingWitness == ScenarioS6 /\ pc = "encoded" /\ Len(records) = 300

\* the full target block number k (from 0), and the reference bytes at its
\* position
TargetBlock(k) == Slice(file1, k * patch_size, (k + 1) * patch_size)
ReferenceCovers(k) == (k + 1) * patch_size <= Len(file2)
ReferenceBlock(k) == Slice(file2, k * patch_size, (k + 1) * patch_size)
DeltaOf(k) == rle_encode(XorBytes(TargetBlock(k), ReferenceBlock(k)))

\* the record the preference order exact > reloc > delta > raw gives block k
ExpectedTag(k) ==
    IF ReferenceCovers(k) /\ ReferenceBlock(k) = TargetBlock(k) THEN 67
    ELSE IF Occurrences(TargetBlock(k)) # {} THEN 82
    ELSE IF ReferenceCovers(k) /\ Len(DeltaOf(k)) < patch_size THEN 88
    ELSE 73

\* the records of full blocks in a stream's record list, one per block: a
\* 0x44 record stands for n + 1 same-offset matches, a 0x50 record for none
RECURSIVE BlockRecords(_)
BlockRecords(recs) ==
    IF recs = << >> THEN << >>
    ELSE LET r == Head(recs)
             own == IF r.tag = 68
                    THEN [m \in 1..(r.n + 1) |-> [tag |-> 67, n |-> 0, at |-> r.at]]
                    ELSE IF r.tag = 80 THEN << >>
                    ELSE << r >>
         IN  own \o BlockRecords(Tail(recs))

\* the payload of the record at position at of the returned stream
PayloadOk(r, k) ==
    CASE r.tag = 82 ->
             /\ Slice(out, r.at + 1, r.at + 4) = ToBytes3(lookup[TargetBlock(k)])
             /\ lookup[TargetBlock(k)] = PreferredOffset(TargetBlock(k))
      [] r.tag = 88 ->
             /\ r.n = Len(DeltaOf(k))
             /\ r.n < patch_size
             /\ Slice(out, r.at + 2, r.at + 2 + r.n) = DeltaOf(k)
      [] r.tag = 73 ->
             Slice(out, r.at + 1, r.at + 1 + patch_size) = TargetBlock(k)
      [] OTHER -> TRUE

\* C11 (record choice): every full target block is classified as the one
\* record the order exact, reloc, delta (only when the RLE form is shorter
\* than a block), raw gives it; and the returned stream holds these records,
\* one per block in ascending block order, each with its payload.
RecordChoice ==
    /\ \A k \in 1..Len(records) : records[k][1] = ExpectedTag(k - 1)
    /\ pc \in { "emit", "tail", "encoded" } => Len(records) = num_full
    /\ pc = "encoded" =>
          LET blocks == BlockRecords(EmittedRecords)
          IN  /\ Len(blocks) = num_full
              /\ \A k \in 1..Len(blocks) :
                    /\ blocks[k].tag = ExpectedTag(k - 1)
                    /\ PayloadOk(blocks[k], k - 1)

\* a returned stream with a delta record for one block and, for a later
\* block that the reference covers and whose RLE form is not shorter than a
\* block, a raw record
RecordChoiceWitness ==
    /\ pc = "encoded"
    /\ \E k, m \in 1..Len(records) :
          /\ k < m
          /\ BlockRecords(EmittedRecords)[k].tag = 88
          /\ BlockRecords(EmittedRecords)[m].tag = 73
          /\ ReferenceCovers(m - 1)
          /\ Len(DeltaOf(m - 1)) >= patch_size


-----------------------------------------------------------------------------
(* SpecRLE: rle_encode and rle_decode on their own.  A byte string is either *)
(* encoded and the code decoded again, or handed to rle_decode as it is.     *)

MaxRleLen == 4

RleBytes == { 0, 1, 2, 128, 129 }

RECURSIVE ShortStrings(_)
ShortStrings(n) ==
    IF n = 0 THEN { << >> }
    ELSE ShortStrings(n - 1)
             \cup { s \o << b >> : s \in ShortStrings(n - 1), b \in RleBytes }

\* runs longer than 129 and literal stretches longer than 128, with and
\* without a byte before and after them
Alternation(n) == [k \in 1..n |-> 100 + (k % 2)]

LongStrings ==
    { (p \o body) \o q :
          p \in { << >>, << 9 >> },
          q \in { << >>, << 50 >>, << 9 >> },
          body \in { Repeat(50, n) : n \in { 129, 130, 131, 259, 260 } }
                       \cup { Alternation(n) : n \in { 128, 129, 130, 257 } } }

RleInputs == ShortStrings(MaxRleLen) \cup LongStrings

InitRLE ==
    /\ pc = "rle"
    /\ rle_input \in RleInputs
    /\ patch_size = 8
    /\ file1 = << >>
    /\ file2 = << >>
    /\ Fresh

\* rle = rle_encode(xor), zipper.py 164
RleEncode ==
    /\ pc = "rle"
    /\ rle_encoded' = rle_encode(rle_input)
    /\ pc' = "rle_encoded"
    /\ UNCHANGED << status, patch_size, file1, file2, lookup, records, i, out,
                    container, patch_bin, crc_stored, ref, result, out_pos, pos,
                    tampered, rle_input, rle_decoded >>

\* xor_delta = rle_decode(...), builder.py 133, of what rle_encode returned
RleDecode ==
    /\ pc = "rle_encoded"
    /\ rle_decoded' = rle_decode(rle_encoded)
    /\ pc' = "rle_round"
    /\ UNCHANGED << status, patch_size, file1, file2, lookup, records, i, out,
                    container, patch_bin, crc_stored, ref, result, out_pos, pos,
                    tampered, rle_input, rle_encoded >>

\* rle_decode of the byte string itself
RleDecodeRaw ==
    /\ pc = "rle"
    /\ rle_decoded' = rle_decode(rle_input)
    /\ pc' = "rle_raw"
    /\ UNCHANGED << status, patch_size, file1, file2, lookup, records, i, out,
                    container, patch_bin, crc_stored, ref, result, out_pos, pos,
                    tampered, rle_input, rle_encoded >>

NextRLE == RleEncode \/ RleDecode \/ RleDecodeRaw

SpecRLE == InitRLE /\ [][NextRLE]_vars

\* C2 (RLE round trip): decoding what rle_encode returned gives back the
\* byte string, with no error.
RleRoundTrip ==
    pc = "rle_round" => rle_decoded = [err |-> "", out |-> rle_input]

\* a round trip of a byte string with a run longer than 129, a literal
\* stretch before it and a single byte after it
RleRoundTripWitness ==
    /\ pc = "rle_round"
    /\ rle_decoded.out = rle_input
    /\ Len(rle_input) > 260
    /\ rle_input[Len(rle_input)] # rle_input[Len(rle_input) - 1]
    /\ rle_encoded[1] < 128
    /\ \E k \in 1..Len(rle_encoded) : rle_encoded[k] = 255

\* the RLE format, zipper.py 28-32: whether the bytes from the 0-based
\* position at on are complete runs, each a control byte with all the bytes
\* it announces
RECURSIVE CompleteRuns(_, _)
CompleteRuns(data, at) ==
    IF at >= Len(data) THEN TRUE
    ELSE LET ctrl == At(data, at)
             need == IF ctrl >= 128 THEN 1 ELSE (ctrl % 128) + 1
         IN  /\ at + 1 + need <= Len(data)
             /\ CompleteRuns(data, at + 1 + need)

\* C5 (strict RLE decoding): rle_decode reports an error for every input
\* that is not a sequence of complete runs.
RleStrict ==
    (pc = "rle_raw" /\ ~CompleteRuns(rle_input, 0)) => rle_decoded.err # ""

-----------------------------------------------------------------------------
(* SpecDec: apply_patch on a raw patch that need not come from               *)
(* generate_patch: a header byte (or none) and up to MaxRecords pieces, each *)
(* a record of the format, a cut-off record or a byte that is no tag.        *)

MaxRecords == 2

Pieces ==
    { << 67 >>,                     \* C
      << 68, 1 >>,                  \* D, 2 blocks
      << 68 >>,                     \* D without its count
      << 82, 0, 0, 0 >>,            \* R at offset 0
      << 82, 0, 0, 8 >>,            \* R at offset 8
      << 82, 0, 0, 20 >>,           \* R at offset 20
      << 73 >> \o OneBlock,         \* I
      << 73, 1, 1 >>,               \* I cut off
      << 88, 2, 134, 1 >>,          \* X, the delta 8 bytes of 1
      << 88, 2, 128, 1 >>,          \* X, the delta 2 bytes
      << 88, 2, 137, 1 >>,          \* X, the delta 11 bytes
      << 88, 1, 128 >>,             \* X, the repeat run without its byte
      << 88, 4, 128 >>,             \* X cut off
      << 80, 3, 1, 0, 1 >>,         \* P
      << 80, 3, 1 >>,               \* P cut off
      << 0 >>,                      \* padding
      << 7 >> }                     \* no tag

RECURSIVE PieceSeqs(_)
PieceSeqs(n) ==
    IF n = 0 THEN { << >> }
    ELSE PieceSeqs(n - 1)
             \cup { s \o c : s \in PieceSeqs(n - 1), c \in Pieces }

RawPatches ==
    { << >>, << 0 >>, << 4 >> }
        \cup { << 8 >> \o s : s \in PieceSeqs(MaxRecords) }

DecReferences ==
    { << >>, ZeroBlock, (ZeroBlock \o MixedBlock) \o << 1, 0, 1 >> }

InitDec ==
    /\ pc = "apply"
    /\ patch_bin \in RawPatches
    /\ file2 \in DecReferences
    /\ file1 = << >>
    /\ patch_size = 0
    /\ rle_input = << >>
    /\ status = "running"
    /\ lookup = [w \in {} |-> 0]
    /\ records = << >>
    /\ i = 0
    /\ out = << >>
    /\ container = << >>
    /\ crc_stored = Word(0, 0)
    /\ ref = << >>
    /\ result = << >>
    /\ out_pos = 0
    /\ pos = 0
    /\ tampered = FALSE
    /\ rle_encoded = << >>
    /\ rle_decoded = [err |-> "", out |-> << >>]

NextDec == ApplyPatchBegin \/ ApplyPatchLoop

SpecDec == InitDec /\ [][NextDec]_vars

\* the read cursor is at a complete 0x58 record whose RLE payload decodes,
\* without error, to a delta that is not patch_size bytes long
BadDeltaAtCursor ==
    /\ pc = "loop"
    /\ pos < Len(patch_bin)
    /\ At(patch_bin, pos) = 88
    /\ pos + 2 <= Len(patch_bin)
    /\ pos + 2 + At(patch_bin, pos + 1) <= Len(patch_bin)
    /\ LET decoded == rle_decode(Slice(patch_bin, pos + 2,
                                       pos + 2 + At(patch_bin, pos + 1)))
       IN  decoded.err = "" /\ Len(decoded.out) # patch_size

\* C4 (delta length check): the pass of the loop that takes such a record
\* ends apply_patch with an error; it appends nothing and does not go on.
DeltaLengthChecked ==
    [][BadDeltaAtCursor =>
           (pc' = "done" /\ status' \notin { "running", "ok" }
                /\ result' = result)]_vars

\* no 0x50 byte lies in the part of the patch read so far, so no partial-block
\* record has been taken
NoPartialBlockYet == \A k \in 1..(pos - 1) : At(patch_bin, k) # 80

\* C10 (decoder cursor invariant): between records, and when the loop has
\* ended, the output is as long as the write cursor says and the write cursor
\* is a multiple of the block size, as long as no partial-block record has
\* been taken.
CursorInvariant ==
    (pc \in { "loop", "applied" } /\ NoPartialBlockYet) =>
        (Len(result) = out_pos /\ out_pos % patch_size = 0)

-----------------------------------------------------------------------------
(* SpecTamper: the run of Spec in which one byte of the raw patch, a record  *)
(* tag or a declared length, may be changed in the file between zipper.py    *)
(* and builder.py.                                                           *)

TamperBytes == { 0, 1, 2, 3, 8, 67, 68, 73, 80, 82, 88, 255 }

\* the positions of a record's tag and of its count or length byte
FieldPositions(rec) ==
    { rec.at } \cup (IF rec.tag \in { 68, 88, 80 } THEN { rec.at + 1 } ELSE {})

InitTamper ==
    /\ pc = "lookup"
    /\ patch_size = 8
    /\ file1 \in Targets
    /\ file2 \in References
    /\ rle_input = << >>
    /\ Fresh

Tamper ==
    /\ pc = "written"
    /\ ~tampered
    /\ \E r \in 1..Len(EmittedRecords), v \in TamperBytes :
           \E at \in FieldPositions(EmittedRecords[r]) :
               /\ At(container, at) # v
               /\ container' = [container EXCEPT ![at + 1] = v]
    /\ tampered' = TRUE
    /\ UNCHANGED << pc, status, patch_size, file1, file2, lookup, records, i,
                    out, patch_bin, crc_stored, ref, result, out_pos, pos,
                    rle_input, rle_encoded, rle_decoded >>

NextTamper == Next \/ Tamper

SpecTamper == InitTamper /\ [][NextTamper]_vars

\* the ways a decode can fail: the error kinds (builder.py's ValueErrors and
\* the CRC mismatch; DeltaLengthMismatch is never raised), and the IndexError
\* that escapes from rle_decode, counted here as a failure too
DecodeFailures ==
    { "InvalidHeader", "TruncatedRecord", "UnknownTag", "DeltaLengthMismatch",
      "ChecksumMismatch", "IndexError" }

\* C3 (tag integrity): with one tag or length byte of the raw patch changed,
\* decoding against the reference always fails.
TagIntegrity == (tampered /\ pc = "done") => status \in DecodeFailures

-----------------------------------------------------------------------------
(* SpecAsk: zipper.py's main from the prompt for the block size on.  Each    *)
(* AskPatchSize step is one pass of _ask_patch_size's loop over one line of  *)
(* input; generate_patch starts once a value has been returned.              *)

DefaultPatchSize == 64

AskNumbers == { -8, 0, 4, 8, 12, 16, 248, 256, 264 }

\* a line of input after strip(): blank, not a whole number, or a whole number
AskLines ==
    { [blank |-> TRUE, number |-> FALSE, val |-> 0],
      [blank |-> FALSE, number |-> FALSE, val |-> 0] }
    \cup { [blank |-> FALSE, number |-> TRUE, val |-> v] : v \in AskNumbers }

AskFiles ==
    { << >>, ZeroBlock \o OneBlock, Zeros(64) \o << 1, 0, 1 >>, Zeros(264) }

InitAsk ==
    /\ pc = "ask"
    /\ patch_size = 0
    /\ file1 \in AskFiles
    /\ file2 \in AskFiles
    /\ rle_input = << >>
    /\ Fresh

AskPatchSize ==
    /\ pc = "ask"
    /\ \E raw \in AskLines :
           IF raw.blank
           THEN patch_size' = DefaultPatchSize /\ pc' = "lookup"
           ELSE IF ~raw.number
           THEN patch_size' = patch_size /\ pc' = "ask"
           ELSE IF raw.val <= 0 \/ raw.val % 8 # 0
           THEN patch_size' = patch_size /\ pc' = "ask"
           ELSE patch_size' = raw.val /\ pc' = "lookup"
    /\ UNCHANGED << status, file1, file2, lookup, records, i, out, container,
                    patch_bin, crc_stored, ref, result, out_pos, pos,
                    tampered, rle_input, rle_encoded, rle_decoded >>

NextAsk == AskPatchSize \/ Next

SpecAsk == InitAsk /\ [][NextAsk]_vars

ProperBlockSize ==
    patch_size > 0 /\ patch_size % 8 = 0 /\ patch_size <= 255

\* C9 (block-size rejection): once the prompt has returned, the block size is
\* a positive multiple of 8 that fits the one-octet header, and encoding
\* does not fail.
BlockSizeRejection ==
    (pc # "ask") => (ProperBlockSize /\ status # "OverflowError")

=============================================================================
